---- MODULE Spec2Model ----
(***************************************************************************)
(* OpenDAFF language bindings: the Python extension module (pydaff.cpp),   *)
(* the Go package with its C header and C wrapper (daff.go) and the Rust   *)
(* C wrapper (daff_rust_wrapper.cpp, line for line the Go one).            *)
(* The native DAFF reader library the bindings call is not part of the     *)
(* sources at hand; the operators named Native_* model it from its         *)
(* specification.                                                          *)
(***************************************************************************)
EXTENDS Integers, Sequences, FiniteSets, TLC

\* ------------------------------------------------------------------ bounds
\* Successful opens of one native reader (the content object's generation).
MaxOpens == 2
\* Calls of the Python open() (successful or not).
MaxPyOpens == 2

\* ------------------------------------------------------- program constants
ContentTypeIR == 1
ContentTypeMS == 2
ContentTypePS == 3
ContentTypeMPS == 4
ContentTypeDFT == 5
ContentTypes == {ContentTypeIR, ContentTypeMS, ContentTypePS, ContentTypeMPS, ContentTypeDFT}

\* The two views of a direction.
DAFF_DATA_VIEW == "DAFF_DATA_VIEW"
DAFF_OBJECT_VIEW == "DAFF_OBJECT_VIEW"
Views == {DAFF_DATA_VIEW, DAFF_OBJECT_VIEW}

\* The null pointer (nullptr in the wrappers, nil in Go).
Nil == 0
NoFile == "none"

\* ------------------------------------------------------------ the files
\* The files a caller may name: five well-formed ones, one per content type,
\* and one the parser rejects.
Files == {"ir.daff", "ms.daff", "ps.daff", "mps.daff", "dft.daff", "corrupt.daff"}
ValidFiles == Files \ {"corrupt.daff"}

FileValid(f) == f \in ValidFiles

FileContentType(f) ==
    CASE f = "ir.daff" -> ContentTypeIR
      [] f = "ms.daff" -> ContentTypeMS
      [] f = "ps.daff" -> ContentTypePS
      [] f = "mps.daff" -> ContentTypeMPS
      [] f = "dft.daff" -> ContentTypeDFT

FileChannels(f) == IF f \in {"ir.daff", "mps.daff"} THEN 2 ELSE 1

\* filterLength / numFrequencies / numDFTCoeffs of the file.
FileShape(f) == IF f \in {"ir.daff", "ps.daff", "mps.daff"} THEN 2 ELSE 1

\* The equi-angular grid of the file, in degrees: alpha in [0, 360) and
\* beta in [0, 180] (0 the south pole, 180 the north pole). ps.daff covers
\* the lower hemisphere only; the other files cover the full sphere.
FileAlphaRes(f) == 90
FileBetaRes(f) == IF f = "ir.daff" THEN 30 ELSE 45
FileBetaStart(f) == 0
FileBetaEnd(f) == IF f = "ps.daff" THEN 90 ELSE 180
FileAlphaPoints(f) == 360 \div FileAlphaRes(f)
FileBetaPoints(f) == ((FileBetaEnd(f) - FileBetaStart(f)) \div FileBetaRes(f)) + 1
FileRecords(f) == FileAlphaPoints(f) * FileBetaPoints(f)

\* The metadata block: key -> <<kind, value>>.
MetaKinds == {"BOOL", "INT", "FLOAT", "STRING"}
Keys == {"Description", "Gain", "Mirrored", "Count", "Missing"}
FileMetadata(f) ==
    IF f = "ms.daff"
    THEN [k \in {"Gain"} |-> [kind |-> "FLOAT", val |-> "2.5"]]
    ELSE [k \in {"Description", "Author", "Gain", "Mirrored", "Count"} |->
            CASE k = "Description" -> [kind |-> "STRING", val |-> "dummy head"]
              [] k = "Author" -> [kind |-> "STRING", val |-> "ITA"]
              [] k = "Gain" -> [kind |-> "FLOAT", val |-> "2.5"]
              [] k = "Mirrored" -> [kind |-> "BOOL", val |-> "true"]
              [] k = "Count" -> [kind |-> "INT", val |-> "3"]]

\* ------------------------------------------------------------- the state
VARIABLES
    host,           \* the process that loaded the binding: "go", "python" or "rust",
                    \* or "goroutines" for a Go program with two goroutines
    heap,           \* the native readers created so far, by address 1..Len(heap)
    reader,         \* the Go program's Reader struct
    acc,            \* the Go program's content accessor struct (the last one obtained)
    g_mReader,      \* pydaff.cpp: handle -> native reader
    g_iLastHandle,  \* pydaff.cpp: the last handle given out
    rsReader,       \* the Rust program: thread -> the reader handle the thread holds
    g_lastError,    \* daff_rust_wrapper.cpp: thread -> the thread's last error message
    GetMetadataString_value,    \* thread -> the thread's metadata string buffer
    cValue,         \* the Go program: goroutine -> the C string GetMetadataString holds
    ret             \* what the last call did and returned to its caller

vars == <<host, heap, reader, acc, g_mReader, g_iLastHandle, rsReader, g_lastError,
          GetMetadataString_value, cValue, ret>>
goVars == <<reader, acc>>
pyVars == <<g_mReader, g_iLastHandle>>
rsVars == <<rsReader, g_lastError, GetMetadataString_value>>

\* The record of a call: its operation, how it ended ("ok", "fail" for a
\* false / null / error return, "raise" for a Python exception, "terminated"
\* when the process died), its arguments, its results, and the state of the
\* native object it dereferenced ("none" when it dereferenced nothing,
\* "live", "closed" for a reader with no file open, "stale" for an object
\* that was closed or destroyed).
Ret(op, outcome, args, val, reached) ==
    [op |-> op, outcome |-> outcome, args |-> args, val |-> val, reached |-> reached]

\* A process that was terminated makes no further calls.
Running == ret.outcome # "terminated"

\* ------------------------------------------------------ the native reader
\* DAFFReader::create(): a reader with no file open.
Native_create == [st |-> "live", opened |-> FALSE, file |-> NoFile, gen |-> 0]

\* delete reader: the reader and everything it owns are gone. A second
\* delete of the same reader is recorded as such.
Native_delete(rd) ==
    [st |-> IF rd.st = "live" THEN "freed" ELSE "freed twice",
     opened |-> FALSE, file |-> NoFile, gen |-> rd.gen]

\* DAFFReader::openFile: either the file is fully parsed and the reader holds
\* it (with a new content object), or the open fails and the reader holds no file.
Native_openFile(rd, f) ==
    IF FileValid(f)
    THEN [err |-> "DAFF_NO_ERROR",
          rd |-> [rd EXCEPT !.opened = TRUE, !.file = f, !.gen = rd.gen + 1]]
    ELSE [err |-> "DAFF_FILE_ERROR",
          rd |-> [rd EXCEPT !.opened = FALSE, !.file = NoFile]]

\* DAFFReader::closeFile
Native_closeFile(rd) == [rd EXCEPT !.opened = FALSE, !.file = NoFile]

\* DAFFReader::isFileOpened
Native_isFileOpened(rd) == rd.opened

\* A content pointer names the content object of one open of one reader.
ContentPtr(rid, rd) == [rid |-> rid, gen |-> rd.gen, file |-> rd.file]
NullContent == [rid |-> Nil, gen |-> 0, file |-> NoFile]

\* The content object a pointer names is alive while its reader is, and
\* while the file it was parsed from is still the one the reader holds.
ContentLive(c) ==
    /\ c.rid # Nil
    /\ heap[c.rid].st = "live"
    /\ heap[c.rid].opened
    /\ heap[c.rid].gen = c.gen

\* What a dereference of reader h finds.
ReaderState(h) ==
    IF heap[h].st # "live" THEN "stale"
    ELSE IF heap[h].opened THEN "live" ELSE "closed"

\* ------------------------------------------------------------- Go: Reader
NoReader == [made |-> FALSE, handle |-> Nil]
NoAcc == [kind |-> 0, handle |-> NullContent]

\* NewReader / GoDAFF_Create. The model follows one Reader of the Go program.
NewReader ==
    /\ host = "go" /\ Running
    /\ ~reader.made /\ heap = <<>>
    /\ heap' = Append(heap, Native_create)
    /\ reader' = [made |-> TRUE, handle |-> Len(heap) + 1]
    /\ ret' = Ret("NewReader", "ok", <<>>, <<Len(heap) + 1>>, "none")
    /\ UNCHANGED <<host, acc, pyVars, rsVars, cValue>>

\* GoDAFF_Destroy
GoDAFF_Destroy(handle) ==
    IF handle # Nil
    THEN [heap EXCEPT ![handle] = Native_delete(heap[handle])]
    ELSE heap

\* A variant of (*Reader).Close that destroys the native reader and keeps
\* the handle.
Reader_Close_KeepHandle ==
    [heap |-> IF reader.handle # Nil THEN GoDAFF_Destroy(reader.handle) ELSE heap,
     handle |-> reader.handle]

\* (*Reader).Close: the heap and the Reader's handle after it.
Reader_Close ==
    [heap |-> IF reader.handle # Nil THEN GoDAFF_Destroy(reader.handle) ELSE heap,
     handle |-> Nil]

\* Reader.Close, called by the program
Close ==
    /\ host = "go" /\ Running /\ reader.made
    /\ heap' = Reader_Close.heap
    /\ reader' = [reader EXCEPT !.handle = Reader_Close.handle]
    /\ ret' = Ret("Close", "ok", <<reader.handle>>, <<>>,
                  IF reader.handle # Nil THEN "live" ELSE "none")
    /\ UNCHANGED <<host, acc, pyVars, rsVars, cValue>>

\* The finalizer NewReader sets with runtime.SetFinalizer(reader,
\* (*Reader).Close): the runtime calls Close once, when the program holds the
\* Reader no more, and the Reader is gone afterwards. Accessors do not hold
\* the Reader, so the program may still hold one.
Finalizer ==
    /\ host = "go" /\ Running /\ reader.made
    /\ heap' = Reader_Close.heap
    /\ reader' = NoReader
    /\ ret' = Ret("Finalizer", "ok", <<reader.handle>>, <<>>,
                  IF reader.handle # Nil THEN "live" ELSE "none")
    /\ UNCHANGED <<host, acc, pyVars, rsVars, cValue>>

\* GoDAFF_OpenFile: <<result, heap afterwards>>
GoDAFF_OpenFile(handle, f) ==
    IF handle = Nil
    THEN [result |-> FALSE, heap |-> heap]
    ELSE LET r == Native_openFile(heap[handle], f)
         IN  [result |-> (r.err = "DAFF_NO_ERROR"),
              heap |-> [heap EXCEPT ![handle] = r.rd]]

\* Reader.OpenFile
OpenFile(f) ==
    /\ host = "go" /\ Running /\ reader.made
    /\ (reader.handle # Nil /\ FileValid(f)) => heap[reader.handle].gen < MaxOpens
    /\ LET r == GoDAFF_OpenFile(reader.handle, f)
       IN  /\ heap' = r.heap
           /\ ret' = Ret("OpenFile", IF r.result THEN "ok" ELSE "fail", <<f>>, <<>>,
                         IF reader.handle # Nil THEN "live" ELSE "none")
    /\ UNCHANGED <<host, reader, acc, pyVars, rsVars, cValue>>

\* GoDAFF_Close
GoDAFF_Close(handle) ==
    IF handle # Nil
    THEN [heap EXCEPT ![handle] = Native_closeFile(heap[handle])]
    ELSE heap

\* Reader.CloseFile
CloseFile ==
    /\ host = "go" /\ Running /\ reader.made
    /\ heap' = GoDAFF_Close(reader.handle)
    /\ ret' = Ret("CloseFile", "ok", <<>>, <<>>,
                  IF reader.handle # Nil THEN "live" ELSE "none")
    /\ UNCHANGED <<host, reader, acc, pyVars, rsVars, cValue>>

\* A variant of GoDAFF_IsValid that tests the handle only and never asks the
\* reader whether a file is open.
GoDAFF_IsValid_HandleOnly(handle) == handle # Nil

\* GoDAFF_IsValid
GoDAFF_IsValid(handle) ==
    IF handle = Nil THEN FALSE ELSE Native_isFileOpened(heap[handle])

\* Reader.IsValid
IsValid ==
    /\ host = "go" /\ Running /\ reader.made
    /\ ret' = Ret("IsValid", "ok", <<>>, <<GoDAFF_IsValid(reader.handle)>>,
                  IF reader.handle # Nil THEN "live" ELSE "none")
    /\ UNCHANGED <<host, heap, reader, acc, pyVars, rsVars, cValue>>

\* ---------------------------------------------------- the native metadata
\* DAFFMetadata::hasKey
Native_hasKey(f, key) == key \in DOMAIN FileMetadata(f)

\* DAFFMetadata::getKeyString / getKeyFloat / getKeyBool on a key that is
\* present: the value when the stored kind is the getter's kind, and a type
\* mismatch otherwise.
Native_getKey(f, key, kind) ==
    IF FileMetadata(f)[key].kind = kind
    THEN [err |-> "none", val |-> FileMetadata(f)[key].val]
    ELSE [err |-> "TypeMismatch", val |-> "default"]

\* ------------------------------------------------- Go: metadata operations
\* The ways a call can end: records of outcome, results and dereferenced state.
Out(outcome, val, reached) == [outcome |-> outcome, val |-> val, reached |-> reached]

\* A dereference of something that is not there (a null properties or
\* metadata object, a closed or destroyed content object) is undefined: the
\* call comes back with what the memory holds, or the process dies.
Undefined(vals, reached) ==
    {Out("ok", v, reached) : v \in vals} \cup {Out("terminated", <<>>, reached)}

\* GoDAFF_HasMetadata
GoDAFF_HasMetadata(handle, key) ==
    IF handle = Nil THEN {Out("ok", <<FALSE>>, "none")}
    ELSE IF ReaderState(handle) # "live"
    THEN Undefined({<<FALSE>>}, ReaderState(handle))
    ELSE {Out("ok", <<Native_hasKey(heap[handle].file, key)>>, "live")}

\* A variant of the typed getters without the hasKey test: the native getter
\* is called for any key and hands back its default for a key that is absent.
GoDAFF_GetMetadata_NoHasKey(kind, handle, key) ==
    IF handle = Nil THEN {Out("fail", <<>>, "none")}
    ELSE IF ReaderState(handle) # "live"
    THEN {Out("fail", <<>>, ReaderState(handle)), Out("terminated", <<>>, ReaderState(handle))}
    ELSE IF ~Native_hasKey(heap[handle].file, key)
    THEN {Out("ok", <<"default">>, "live")}
    ELSE {Out("ok", <<Native_getKey(heap[handle].file, key, kind).val>>, "live")}

\* GoDAFF_GetMetadataString / GoDAFF_GetMetadataFloat / GoDAFF_GetMetadataBool:
\* the three differ in the native getter they call. The value the native
\* getter hands back is stored and success is returned whatever the key's
\* kind; a native getter that throws ends the process, as nothing catches it.
GoDAFF_GetMetadata(kind, handle, key) ==
    IF handle = Nil THEN {Out("fail", <<>>, "none")}
    ELSE IF ReaderState(handle) # "live"
    THEN {Out("fail", <<>>, ReaderState(handle)), Out("terminated", <<>>, ReaderState(handle))}
    ELSE IF ~Native_hasKey(heap[handle].file, key)
    THEN {Out("fail", <<>>, "live")}
    ELSE LET r == Native_getKey(heap[handle].file, key, kind)
         IN  IF r.err = "none"
             THEN {Out("ok", <<r.val>>, "live")}
             ELSE {Out("ok", <<r.val>>, "live"), Out("terminated", <<>>, "live")}

\* Reader.HasMetadata
HasMetadata(key) ==
    /\ host = "go" /\ Running /\ reader.made
    /\ \E o \in GoDAFF_HasMetadata(reader.handle, key) :
          ret' = Ret("HasMetadata", o.outcome, <<key>>, o.val, o.reached)
    /\ UNCHANGED <<host, heap, reader, acc, pyVars, rsVars, cValue>>

\* Reader.GetMetadataString / GetMetadataFloat / GetMetadataBool
GetMetadata(kind, key) ==
    /\ host = "go" /\ Running /\ reader.made
    /\ \E o \in GoDAFF_GetMetadata(kind, reader.handle, key) :
          ret' = Ret("GetMetadata", o.outcome, <<kind, key>>, o.val, o.reached)
    /\ UNCHANGED <<host, heap, reader, acc, pyVars, rsVars, cValue>>

GoMetaKinds == {"STRING", "FLOAT", "BOOL"}

\* -------------------------------------------------- Go: the file properties
\* The property getters of the Reader, by the name after "Get".
IntProperties ==
    {"ContentType", "Quantization", "NumChannels", "NumRecords", "AlphaPoints", "BetaPoints"}
FloatProperties == {"AlphaResolution", "BetaResolution"}
ReaderProperties == IntProperties \cup FloatProperties \cup {"Orientation"}

\* DAFFProperties::getContentType / getQuantization / getNumberOfChannels /
\* getNumberOfRecords / getAlphaPoints / getBetaPoints / getAlphaResolution /
\* getBetaResolution / getOrientation of the file a reader holds.
Native_getProperty(f, name) ==
    CASE name = "ContentType" -> <<FileContentType(f)>>
      [] name = "Quantization" -> <<3>>
      [] name = "NumChannels" -> <<FileChannels(f)>>
      [] name = "NumRecords" -> <<FileRecords(f)>>
      [] name = "AlphaPoints" -> <<FileAlphaPoints(f)>>
      [] name = "BetaPoints" -> <<FileBetaPoints(f)>>
      [] name = "AlphaResolution" -> <<FileAlphaRes(f)>>
      [] name = "BetaResolution" -> <<FileBetaRes(f)>>
      [] name = "Orientation" -> <<0, 0, 0>>

\* A variant of the property getters without the test of the handle: the
\* null reader is dereferenced.
GoDAFF_GetProperty_NoNilTest(name, handle) ==
    IF handle = Nil THEN Undefined({<<0>>}, "none")
    ELSE IF ReaderState(handle) # "live"
    THEN Undefined({<<0>>}, ReaderState(handle))
    ELSE {Out("ok", Native_getProperty(heap[handle].file, name), "live")}

\* GoDAFF_GetContentType / GetQuantization / GetNumChannels / GetNumRecords /
\* GetAlphaResolution / GetBetaResolution / GetAlphaPoints / GetBetaPoints /
\* GetOrientationYPR with the Go method on top: -1 (as int or as float) for
\* a null handle, which GetOrientation turns into an error; the properties
\* of the reader otherwise, whatever state the reader is in.
GoDAFF_GetProperty(name, handle) ==
    IF handle = Nil
    THEN {IF name = "Orientation" THEN Out("fail", <<0, 0, 0>>, "none")
                                  ELSE Out("ok", <<-1>>, "none")}
    ELSE IF ReaderState(handle) # "live"
    THEN Undefined({<<0>>}, ReaderState(handle))
    ELSE {Out("ok", Native_getProperty(heap[handle].file, name), "live")}

\* Reader.GetContentType / GetQuantization / GetNumChannels / GetNumRecords /
\* GetAlphaResolution / GetBetaResolution / GetAlphaPoints / GetBetaPoints /
\* GetOrientation
GetProperty(name) ==
    /\ host = "go" /\ Running /\ reader.made
    /\ \E o \in GoDAFF_GetProperty(name, reader.handle) :
          ret' = Ret("GetProperty", o.outcome, <<name>>, o.val, o.reached)
    /\ UNCHANGED <<host, heap, reader, acc, pyVars, rsVars, cValue>>

\* ---------------------------------------------------- the native content
\* DAFFReader::getContent with the dynamic_cast to the content class of type
\* X: the content object of an open file is of the class of the file's type.
Native_getContentAs(X, rid) ==
    IF FileContentType(heap[rid].file) = X THEN ContentPtr(rid, heap[rid]) ELSE NullContent

\* getFilterLength / getNumFrequencies / getNumDFTCoeffs
Native_getShape(f) == FileShape(f)

\* Floats one record of one channel holds: the shape parameter, twice that
\* for the complex types (interleaved pairs).
Native_dataLength(f) ==
    IF FileContentType(f) \in {ContentTypeMPS, ContentTypeDFT}
    THEN 2 * FileShape(f) ELSE FileShape(f)

\* The stored floats, as small integers that tell the positions apart.
Native_value(f, rec, ch, i) == ((rec + (2 * ch) + i) % 3) + 1

\* The elements f[1] .. f[n] as a sequence (a C array read front to back).
RECURSIVE Array(_, _)
Array(f, n) == IF n <= 0 THEN <<>> ELSE Append(Array(f, n - 1), f[n])

\* getFilterCoeffs / getMagnitudes / getPhases / getCoefficientsMP /
\* getDFTCoeffs: a bounds-checked read. On an index out of range the call
\* returns an error and writes nothing.
Native_getData(f, rec, ch) ==
    IF rec \in 0..(FileRecords(f) - 1) /\ ch \in 0..(FileChannels(f) - 1)
    THEN [err |-> "DAFF_NO_ERROR",
          data |-> Array([i \in 1..Native_dataLength(f) |-> Native_value(f, rec, ch, i)],
                         Native_dataLength(f))]
    ELSE [err |-> "DAFF_INVALID_INDEX", data |-> <<>>]

\* ------------------------------------------------- Go: content accessors
\* A variant of the five GoDAFF_GetContentX functions in which each compares
\* the file's type with DAFF_IMPULSE_RESPONSE, as GoDAFF_GetContentIR does,
\* and then hands out the content object under the type X.
GoDAFF_GetContent_IRTag(X, handle) ==
    IF handle = Nil THEN {Out("fail", <<NullContent>>, "none")}
    ELSE IF ReaderState(handle) # "live"
    THEN {Out("fail", <<NullContent>>, ReaderState(handle)),
          Out("terminated", <<>>, ReaderState(handle))}
    ELSE IF FileContentType(heap[handle].file) # ContentTypeIR
    THEN {Out("fail", <<NullContent>>, "live")}
    ELSE {Out("ok", <<ContentPtr(handle, heap[handle])>>, "live")}

\* GoDAFF_GetContentIR / MS / PS / MPS / DFT, X the content type the
\* function tests for.
GoDAFF_GetContent(X, handle) ==
    IF handle = Nil THEN {Out("fail", <<NullContent>>, "none")}
    ELSE IF ReaderState(handle) # "live"
    THEN {Out("fail", <<NullContent>>, ReaderState(handle)),
          Out("terminated", <<>>, ReaderState(handle))}
    ELSE IF FileContentType(heap[handle].file) # X
    THEN {Out("fail", <<NullContent>>, "live")}
    ELSE LET c == Native_getContentAs(X, handle)
         IN  {Out(IF c = NullContent THEN "fail" ELSE "ok", <<c>>, "live")}

\* Reader.GetContentIR / GetContentMS / GetContentPS / GetContentMPS /
\* GetContentDFT: a nil handle is an error, anything else an accessor.
GetContent(X) ==
    /\ host = "go" /\ Running /\ reader.made
    /\ \E o \in GoDAFF_GetContent(X, reader.handle) :
          /\ ret' = Ret("GetContent", o.outcome, <<X>>, o.val, o.reached)
          /\ acc' = IF o.outcome = "ok" THEN [kind |-> X, handle |-> o.val[1]] ELSE acc
    /\ UNCHANGED <<host, heap, reader, pyVars, rsVars, cValue>>

\* What a dereference of content pointer c finds.
ContentState(c) == IF ContentLive(c) THEN "live" ELSE "stale"

\* GoDAFF_ContentIR_GetFilterLength / ContentMS_GetNumFrequencies / ... /
\* ContentDFT_GetNumDFTCoeffs
GoDAFF_Content_GetShape(content) ==
    IF content = NullContent THEN {Out("ok", <<-1>>, "none")}
    ELSE IF ~ContentLive(content)
    THEN Undefined({<<Native_getShape(content.file)>>, <<0>>}, "stale")
    ELSE {Out("ok", <<Native_getShape(content.file)>>, "live")}

\* ContentIR.GetFilterLength / ContentMS.GetNumFrequencies / ...
GetShape ==
    /\ host = "go" /\ Running /\ acc # NoAcc
    /\ \E o \in GoDAFF_Content_GetShape(acc.handle) :
          ret' = Ret("GetShape", o.outcome, <<acc.kind>>, o.val, o.reached)
    /\ UNCHANGED <<host, heap, reader, acc, pyVars, rsVars, cValue>>

\* A buffer of n floats, all zero (Go's make([]float32, n)).
Zeros(n) == Array([i \in 1..n |-> 0], n)

\* The buffer after the native getter wrote data to its start.
WriteInto(buf, data) ==
    Array([i \in 1..Len(buf) |-> IF i <= Len(data) THEN data[i] ELSE buf[i]], Len(buf))

\* Elements 0, 2, 4, ... and 1, 3, 5, ... of an interleaved sequence.
Evens(s, n) == Array([i \in 1..n |-> s[(2 * i) - 1]], n)
Odds(s, n) == Array([i \in 1..n |-> s[2 * i]], n)

\* A variant of the size test in which GoDAFF_ContentDFT_GetDFTCoeffs
\* compares bufferSize with getNumDFTCoeffs(), as the getters of the other
\* types compare with their shape.
RequiredSize_Shape(X, f) == Native_getShape(f)

\* The size a wrapper's getter of type X demands of the caller's buffer.
RequiredSize(X, f) == IF X = ContentTypeDFT THEN 2 * Native_getShape(f) ELSE Native_getShape(f)

\* A variant of the getters in which GoDAFF_ContentMPS_GetCoefficients copies
\* the interleaved floats to the front of the magnitude buffer, as the
\* getters of the other types copy theirs, and leaves the phases alone.
GoDAFF_Content_GetData_NoDeinterleave(X, content, rec, ch, buf, bufferSize) ==
    IF content = NullContent THEN {Out("fail", <<buf>>, "none")}
    ELSE IF ~ContentLive(content)
    THEN Undefined({<<buf>>}, "stale") \cup {Out("fail", <<buf>>, "stale")}
    ELSE IF bufferSize < RequiredSize(X, content.file)
    THEN {Out("fail", <<buf>>, "live")}
    ELSE LET r == Native_getData(content.file, rec, ch)
         IN  IF X = ContentTypeMPS
             THEN IF r.err # "DAFF_NO_ERROR"
                  THEN {Out("fail", <<buf>>, "live")}
                  ELSE {Out("ok", <<<<WriteInto(buf[1], r.data), buf[2]>>>>, "live")}
             ELSE {Out("ok", <<WriteInto(buf, r.data)>>, "live")}

\* GoDAFF_ContentIR_GetFilterCoeffs / ContentMS_GetMagnitudes /
\* ContentPS_GetPhases / ContentDFT_GetDFTCoeffs (the native result is
\* dropped and true returned) and GoDAFF_ContentMPS_GetCoefficients (the
\* native result is tested; buf is the pair <<magnitudes, phases>>).
GoDAFF_Content_GetData(X, content, rec, ch, buf, bufferSize) ==
    IF content = NullContent THEN {Out("fail", <<buf>>, "none")}
    ELSE IF ~ContentLive(content)
    THEN Undefined({<<buf>>}, "stale") \cup {Out("fail", <<buf>>, "stale")}
    ELSE IF bufferSize < RequiredSize(X, content.file)
    THEN {Out("fail", <<buf>>, "live")}
    ELSE LET r == Native_getData(content.file, rec, ch)
             n == Native_getShape(content.file)
         IN  IF X = ContentTypeMPS
             THEN IF r.err # "DAFF_NO_ERROR"
                  THEN {Out("fail", <<buf>>, "live")}
                  ELSE {Out("ok", <<<<WriteInto(buf[1], Evens(r.data, n)),
                                      WriteInto(buf[2], Odds(r.data, n))>>>>, "live")}
             ELSE {Out("ok", <<WriteInto(buf, r.data)>>, "live")}

\* The indices a caller tries: in range, and just outside on either side.
RecordArgs(f) == {-1, 0, FileRecords(f) - 1, FileRecords(f)}
ChannelArgs(f) == {-1, 0, FileChannels(f) - 1, FileChannels(f)}
AllRecordArgs == UNION {RecordArgs(f) : f \in ValidFiles}
AllChannelArgs == UNION {ChannelArgs(f) : f \in ValidFiles}

\* ContentIR.GetFilterCoeffs / ContentMS.GetMagnitudes / ContentPS.GetPhases /
\* ContentMPS.GetCoefficients / ContentDFT.GetDFTCoeffs: ask the shape,
\* make the slice(s), take the address of element 0, call the wrapper.
Go_GetData(X, content, rec, ch) ==
    UNION { IF s.outcome = "terminated" THEN {s}
            ELSE LET length == IF X = ContentTypeDFT THEN 2 * s.val[1] ELSE s.val[1]
                     buf == IF X = ContentTypeMPS
                            THEN <<Zeros(length), Zeros(length)>> ELSE Zeros(length)
                 IN  IF length <= 0 THEN {Out("panic", <<>>, s.reached)}
                     ELSE { IF o.outcome = "ok" THEN o
                            ELSE IF o.outcome = "terminated" THEN o
                            ELSE Out("fail", <<>>, o.reached)
                            : o \in GoDAFF_Content_GetData(X, content, rec, ch, buf, length) }
          : s \in GoDAFF_Content_GetShape(content) }

GetData(rec, ch) ==
    /\ host = "go" /\ Running /\ acc # NoAcc
    /\ rec \in RecordArgs(acc.handle.file) /\ ch \in ChannelArgs(acc.handle.file)
    /\ \E o \in Go_GetData(acc.kind, acc.handle, rec, ch) :
          ret' = Ret("GetData", o.outcome, <<acc.kind, rec, ch>>, o.val, o.reached)
    /\ UNCHANGED <<host, heap, reader, acc, pyVars, rsVars, cValue>>

\* The same getters called on the zero value of the accessor type (var ir
\* ContentIR): its handle is nil.
GetDataZeroValue(X) ==
    /\ host = "go" /\ Running
    /\ \E o \in Go_GetData(X, NullContent, 0, 0) :
          ret' = Ret("GetData", o.outcome, <<X, 0, 0>>, o.val, o.reached)
    /\ UNCHANGED <<host, heap, reader, acc, pyVars, rsVars, cValue>>

\* The buffer sizes a caller of the C interface tries: one float too few,
\* and enough.
BufferArgs(X, f) == {RequiredSize(X, f) - 1, RequiredSize(X, f)}
AllBufferArgs == UNION {BufferArgs(X, f) : X \in ContentTypes, f \in ValidFiles}

\* RustDAFF_ContentIR_GetFilterCoeffs / ..., GoDAFF_ContentIR_GetFilterCoeffs
\* / ... called through the C interface with the caller's own buffer of
\* bufferSize floats (the Rust wrapper is the same code as the Go wrapper).
Content_GetData(rec, ch, bufferSize) ==
    /\ host = "go" /\ Running /\ acc # NoAcc
    /\ rec \in RecordArgs(acc.handle.file) /\ ch \in ChannelArgs(acc.handle.file)
    /\ bufferSize \in BufferArgs(acc.kind, acc.handle.file)
    /\ LET buf == IF acc.kind = ContentTypeMPS
                  THEN <<Zeros(bufferSize), Zeros(bufferSize)>> ELSE Zeros(bufferSize)
       IN  \E o \in GoDAFF_Content_GetData(acc.kind, acc.handle, rec, ch, buf, bufferSize) :
              ret' = Ret("Content_GetData", o.outcome, <<acc.kind, rec, ch, bufferSize>>,
                         o.val, o.reached)
    /\ UNCHANGED <<host, heap, reader, acc, pyVars, rsVars, cValue>>

\* ------------------------------------------- the native nearest neighbour
\* A floating-point number that crosses a binding: Num(n) is the number n,
\* Rad(n) is the number n * pi / 180 (the radians of an angle of n degrees).
Num(n) == [scale |-> "1", n |-> n]
Rad(n) == [scale |-> "pi/180", n |-> n]

\* The core takes the angles it is given as radians. The angle, in degrees
\* rounded to whole degrees, that the number x measures when read so:
\* 180 / pi is taken as 57.30.
Native_degrees(x) ==
    IF x.scale = "pi/180" THEN x.n ELSE ((x.n * 5730) + 50) \div 100

\* Inside the core angles are whole degrees. Rounding to the nearest whole
\* number of steps, halves upwards.
RoundDiv(a, step) == ((2 * a) + step) \div (2 * step)

Clamp(x, lo, hi) == IF x < lo THEN lo ELSE IF x > hi THEN hi ELSE x

\* Object view (phi, theta) to data view (alpha, beta) for a file in its
\* default orientation: the azimuth is kept, the elevation -90..90 becomes
\* the polar angle 0..180.
Native_toDataView(view, a1, a2) ==
    IF view = DAFF_OBJECT_VIEW
    THEN [alpha |-> a1 % 360, beta |-> a2 + 90]
    ELSE [alpha |-> a1 % 360, beta |-> a2]

\* Data view to the requested view.
Native_fromDataView(view, alpha, beta) ==
    IF view = DAFF_OBJECT_VIEW
    THEN <<alpha, beta - 90>>
    ELSE <<alpha, beta>>

\* DAFFContent::getNearestNeighbour on an equi-angular grid: a direct
\* lookup, each angle rounded to its nearest grid step, the beta index
\* clamped to the grid, the alpha index taken around the full circle.
\* The flag is set when the direction is outside the beta range the file
\* covers; the index of the nearest record comes back all the same.
Native_getNearestNeighbour(f, view, a1, a2) ==
    LET d == Native_toDataView(view, Native_degrees(a1), Native_degrees(a2))
        iBeta == Clamp(RoundDiv(d.beta - FileBetaStart(f), FileBetaRes(f)),
                       0, FileBetaPoints(f) - 1)
        iAlpha == RoundDiv(d.alpha, FileAlphaRes(f)) % FileAlphaPoints(f)
    IN  [index |-> (iBeta * FileAlphaPoints(f)) + iAlpha,
         outOfBounds |-> (d.beta < FileBetaStart(f) \/ d.beta > FileBetaEnd(f))]

\* The direction of record rec in the data view, in degrees.
Native_recordDirection(f, rec) ==
    <<(rec % FileAlphaPoints(f)) * FileAlphaRes(f),
      FileBetaStart(f) + ((rec \div FileAlphaPoints(f)) * FileBetaRes(f))>>

\* DAFFContent::getRecordCoords: the direction of the record in the view
\* asked for, as numbers in the core's unit. An index out of range is an
\* error and writes nothing.
Native_getRecordCoords(f, rec, view) ==
    IF rec \in 0..(FileRecords(f) - 1)
    THEN LET c == Native_fromDataView(view, Native_recordDirection(f, rec)[1],
                                      Native_recordDirection(f, rec)[2])
         IN  [err |-> "DAFF_NO_ERROR", coords |-> <<Rad(c[1]), Rad(c[2])>>]
    ELSE [err |-> "DAFF_INVALID_INDEX", coords |-> <<>>]

\* ------------------------------------------------------ Python: pydaff.cpp
\* ValidHandle
ValidHandle(iHandle) == iHandle \in DOMAIN g_mReader

InvalidHandle == Out("raise", <<"Invalid DAFF handle">>, "none")

\* A variant of daff_open that takes the new handle number before it looks
\* at the result of openFile.
daff_open_CountFirst(f) ==
    /\ host = "python" /\ Running
    /\ Len(heap) < MaxPyOpens
    /\ LET pReader == Len(heap) + 1
           r == Native_openFile(Native_create, f)
           iNewHandle == g_iLastHandle + 1
       IN  /\ g_iLastHandle' = iNewHandle
           /\ IF r.err = "DAFF_NO_ERROR"
              THEN /\ g_mReader' = [h \in DOMAIN g_mReader \cup {iNewHandle} |->
                                       IF h = iNewHandle THEN pReader ELSE g_mReader[h]]
                   /\ heap' = Append(heap, r.rd)
                   /\ ret' = Ret("open", "ok", <<f>>, <<iNewHandle>>, "live")
              ELSE /\ heap' = Append(heap, Native_delete(r.rd))
                   /\ ret' = Ret("open", "raise", <<f>>, <<"Could not open">>, "live")
                   /\ UNCHANGED g_mReader
    /\ UNCHANGED <<host, goVars, rsVars, cValue>>

\* A variant of daff_open that takes the size of the table plus one as the
\* new handle (so a closed handle's value comes back) where daff_open takes
\* ++g_iLastHandle.
daff_open_TableSize(f) ==
    /\ host = "python" /\ Running
    /\ Len(heap) < MaxPyOpens
    /\ LET pReader == Len(heap) + 1
           r == Native_openFile(Native_create, f)
           iNewHandle == Cardinality(DOMAIN g_mReader) + 1
       IN  IF r.err = "DAFF_NO_ERROR"
           THEN /\ g_iLastHandle' = iNewHandle
                /\ g_mReader' = [h \in DOMAIN g_mReader \cup {iNewHandle} |->
                                    IF h = iNewHandle THEN pReader ELSE g_mReader[h]]
                /\ heap' = Append(heap, r.rd)
                /\ ret' = Ret("open", "ok", <<f>>, <<iNewHandle>>, "live")
           ELSE /\ heap' = Append(heap, Native_delete(r.rd))
                /\ ret' = Ret("open", "raise", <<f>>, <<"Could not open">>, "live")
                /\ UNCHANGED pyVars
    /\ UNCHANGED <<host, goVars, rsVars, cValue>>

\* daff_open
daff_open(f) ==
    /\ host = "python" /\ Running
    /\ Len(heap) < MaxPyOpens
    /\ LET pReader == Len(heap) + 1
           r == Native_openFile(Native_create, f)
           iNewHandle == g_iLastHandle + 1
       IN  IF r.err = "DAFF_NO_ERROR"
           THEN /\ g_iLastHandle' = iNewHandle
                /\ g_mReader' = [h \in DOMAIN g_mReader \cup {iNewHandle} |->
                                    IF h = iNewHandle THEN pReader ELSE g_mReader[h]]
                /\ heap' = Append(heap, r.rd)
                /\ ret' = Ret("open", "ok", <<f>>, <<iNewHandle>>, "live")
           ELSE /\ heap' = Append(heap, Native_delete(r.rd))
                /\ ret' = Ret("open", "raise", <<f>>, <<"Could not open">>, "live")
                /\ UNCHANGED pyVars
    /\ UNCHANGED <<host, goVars, rsVars, cValue>>

\* A variant of daff_close that empties the table (g_mReader.clear()) where
\* daff_close erases the one handle.
daff_close_EraseAll(iHandle) ==
    /\ host = "python" /\ Running
    /\ IF ~ValidHandle(iHandle)
       THEN /\ ret' = Ret("close", "raise", <<iHandle>>, InvalidHandle.val, "none")
            /\ UNCHANGED <<heap, pyVars>>
       ELSE LET pReader == g_mReader[iHandle]
            IN  /\ g_mReader' = [h \in {} |-> Nil]
                /\ heap' = [heap EXCEPT ![pReader] = Native_closeFile(heap[pReader])]
                /\ ret' = Ret("close", "ok", <<iHandle>>, <<>>, "live")
                /\ UNCHANGED g_iLastHandle
    /\ UNCHANGED <<host, goVars, rsVars, cValue>>

\* A variant of daff_close that looks the handle up with g_mReader[iHandle]
\* before it tests it: the lookup of an unknown handle puts a null entry
\* into the table.
daff_close_LookupFirst(iHandle) ==
    /\ host = "python" /\ Running
    /\ IF ~ValidHandle(iHandle)
       THEN /\ g_mReader' = [h \in DOMAIN g_mReader \cup {iHandle} |->
                                IF h = iHandle THEN Nil ELSE g_mReader[h]]
            /\ ret' = Ret("close", "raise", <<iHandle>>, InvalidHandle.val, "none")
            /\ UNCHANGED <<heap, g_iLastHandle>>
       ELSE LET pReader == g_mReader[iHandle]
            IN  /\ g_mReader' = [h \in DOMAIN g_mReader \ {iHandle} |-> g_mReader[h]]
                /\ heap' = [heap EXCEPT ![pReader] = Native_closeFile(heap[pReader])]
                /\ ret' = Ret("close", "ok", <<iHandle>>, <<>>, "live")
                /\ UNCHANGED g_iLastHandle
    /\ UNCHANGED <<host, goVars, rsVars, cValue>>

\* daff_close
daff_close(iHandle) ==
    /\ host = "python" /\ Running
    /\ IF ~ValidHandle(iHandle)
       THEN /\ ret' = Ret("close", "raise", <<iHandle>>, InvalidHandle.val, "none")
            /\ UNCHANGED <<heap, pyVars>>
       ELSE LET pReader == g_mReader[iHandle]
            IN  /\ g_mReader' = [h \in DOMAIN g_mReader \ {iHandle} |-> g_mReader[h]]
                /\ heap' = [heap EXCEPT ![pReader] = Native_closeFile(heap[pReader])]
                /\ ret' = Ret("close", "ok", <<iHandle>>, <<>>, "live")
                /\ UNCHANGED g_iLastHandle
    /\ UNCHANGED <<host, goVars, rsVars, cValue>>

\* What an uninitialised float may hold.
Garbage == {0, 7}

\* getCoefficientsRI: the magnitude-phase pairs converted to real and
\* imaginary parts; the pair (m, p) becomes the numbers 100 + 10m + p and
\* 200 + 10m + p, which name its two parts.
Native_toRI(data) ==
    Array([i \in 1..Len(data) |->
              IF i % 2 = 1 THEN 100 + (10 * data[i]) + data[i + 1]
              ELSE 200 + (10 * data[i - 1]) + data[i]], Len(data))

\* The getter GetRecordPython calls for the file's content type.
Native_getDataPython(f, rec, ch) ==
    LET r == Native_getData(f, rec, ch)
    IN  IF FileContentType(f) = ContentTypeMPS /\ r.err = "DAFF_NO_ERROR"
        THEN [r EXCEPT !.data = Native_toRI(r.data)]
        ELSE r

\* GetRecordPython, one channel: the floats allocated (new float[n]), the
\* floats the native getter writes, and the largest index + 1 read back.
PyBufferAlloc(f) == Native_getShape(f)
PyBufferWritten(f) == Native_dataLength(f)
PyBufferRead(f) ==
    IF FileContentType(f) \in {ContentTypeMPS, ContentTypeDFT}
    THEN 2 * Native_getShape(f) ELSE Native_getShape(f)

\* The list of one channel: a float per element, or a complex (pair) per
\* element for MPS and DFT, read from the buffer the native getter filled;
\* what it did not write is uninitialised (g).
PyChannelList(f, rec, ch, g) ==
    LET r == Native_getDataPython(f, rec, ch)
        n == Native_getShape(f)
        mem == [i \in 1..PyBufferRead(f) |-> IF i <= Len(r.data) THEN r.data[i] ELSE g]
    IN  IF FileContentType(f) \in {ContentTypeMPS, ContentTypeDFT}
        THEN Array([i \in 1..n |-> <<mem[(2 * i) - 1], mem[2 * i]>>], n)
        ELSE Array([i \in 1..n |-> mem[i]], n)

\* GetRecordPython: one list per channel. No result of a native getter is
\* looked at. Writing or reading past the end of the allocation is
\* undefined: the lists come back as read, or the process dies.
GetRecordPython(f, rec) ==
    LET lists == {Array([c \in 1..FileChannels(f) |-> PyChannelList(f, rec, c - 1, g)],
                        FileChannels(f)) : g \in Garbage}
    IN  IF PyBufferWritten(f) > PyBufferAlloc(f) \/ PyBufferRead(f) > PyBufferAlloc(f)
        THEN Undefined({<<l>> : l \in lists}, "live")
        ELSE {Out("ok", <<l>>, "live") : l \in lists}

\* daff_record
daff_record(iHandle, iRecordIndex) ==
    /\ host = "python" /\ Running
    /\ iRecordIndex \in (IF ValidHandle(iHandle)
                         THEN RecordArgs(heap[g_mReader[iHandle]].file) ELSE {0})
    /\ \E o \in (IF ~ValidHandle(iHandle) THEN {InvalidHandle}
                 ELSE GetRecordPython(heap[g_mReader[iHandle]].file, iRecordIndex)) :
          ret' = Ret("record", o.outcome, <<iHandle, iRecordIndex>>, o.val, o.reached)
    /\ UNCHANGED <<host, heap, goVars, pyVars, rsVars, cValue>>

\* daff_nearest_neighbour_index
daff_nearest_neighbour_index(iHandle, iView, dAngle1Deg, dAngle2Deg) ==
    /\ host = "python" /\ Running
    /\ \E o \in (IF ~ValidHandle(iHandle) THEN {InvalidHandle}
                 ELSE LET nn == Native_getNearestNeighbour(heap[g_mReader[iHandle]].file, iView,
                                                          Num(dAngle1Deg), Num(dAngle2Deg))
                      IN  {Out("ok", <<nn.index, nn.outOfBounds>>, "live")}) :
          ret' = Ret("nearest_neighbour_index", o.outcome,
                     <<iHandle, iView, dAngle1Deg, dAngle2Deg>>, o.val, o.reached)
    /\ UNCHANGED <<host, heap, goVars, pyVars, rsVars, cValue>>

\* daff_nearest_neighbour_record
daff_nearest_neighbour_record(iHandle, iView, dAngle1Deg, dAngle2Deg) ==
    /\ host = "python" /\ Running
    /\ \E o \in (IF ~ValidHandle(iHandle) THEN {InvalidHandle}
                 ELSE LET f == heap[g_mReader[iHandle]].file
                          nn == Native_getNearestNeighbour(f, iView,
                                                           Num(dAngle1Deg), Num(dAngle2Deg))
                      IN  GetRecordPython(f, nn.index)) :
          ret' = Ret("nearest_neighbour_record", o.outcome,
                     <<iHandle, iView, dAngle1Deg, dAngle2Deg>>, o.val, o.reached)
    /\ UNCHANGED <<host, heap, goVars, pyVars, rsVars, cValue>>

\* daff_content_type
daff_content_type(iHandle) ==
    /\ host = "python" /\ Running
    /\ \E o \in (IF ~ValidHandle(iHandle) THEN {InvalidHandle}
                 ELSE {Out("ok", <<FileContentType(heap[g_mReader[iHandle]].file)>>, "live")}) :
          ret' = Ret("content_type", o.outcome, <<iHandle>>, o.val, o.reached)
    /\ UNCHANGED <<host, heap, goVars, pyVars, rsVars, cValue>>

\* DAFFUtils::StrContentType and DAFFUtils::StrShortContentType
Native_StrContentType(t) ==
    CASE t = ContentTypeIR -> "Impulse response"
      [] t = ContentTypeMS -> "Magnitude spectrum"
      [] t = ContentTypePS -> "Phase spectrum"
      [] t = ContentTypeMPS -> "Magnitude-phase spectrum"
      [] t = ContentTypeDFT -> "DFT spectrum"

Native_StrShortContentType(t) ==
    CASE t = ContentTypeIR -> "IR"
      [] t = ContentTypeMS -> "MS"
      [] t = ContentTypePS -> "PS"
      [] t = ContentTypeMPS -> "MPS"
      [] t = ContentTypeDFT -> "DFT"

\* daff_content_type_str
daff_content_type_str(iHandle) ==
    /\ host = "python" /\ Running
    /\ \E o \in (IF ~ValidHandle(iHandle) THEN {InvalidHandle}
                 ELSE {Out("ok", <<Native_StrContentType(
                                      FileContentType(heap[g_mReader[iHandle]].file))>>,
                           "live")}) :
          ret' = Ret("content_type_str", o.outcome, <<iHandle>>, o.val, o.reached)
    /\ UNCHANGED <<host, heap, goVars, pyVars, rsVars, cValue>>

\* The Python object daff_metadata makes for key sKey: the switch over
\* getKeyType reads the value with the getter of the key's own kind and wraps
\* it as a bool, an int, a float or a str.
PyMetadataValue(f, sKey) ==
    LET kind == FileMetadata(f)[sKey].kind
    IN  CASE kind = "BOOL" -> [kind |-> "BOOL", val |-> Native_getKey(f, sKey, "BOOL").val]
          [] kind = "INT" -> [kind |-> "INT", val |-> Native_getKey(f, sKey, "INT").val]
          [] kind = "FLOAT" -> [kind |-> "FLOAT", val |-> Native_getKey(f, sKey, "FLOAT").val]
          [] kind = "STRING" -> [kind |-> "STRING", val |-> Native_getKey(f, sKey, "STRING").val]

\* daff_metadata: a dictionary with every key of the file.
daff_metadata(iHandle) ==
    /\ host = "python" /\ Running
    /\ \E o \in (IF ~ValidHandle(iHandle) THEN {InvalidHandle}
                 ELSE LET f == heap[g_mReader[iHandle]].file
                      IN  {Out("ok", <<[sKey \in DOMAIN FileMetadata(f) |->
                                          PyMetadataValue(f, sKey)]>>,
                               "live")}) :
          ret' = Ret("metadata", o.outcome, <<iHandle>>, o.val, o.reached)
    /\ UNCHANGED <<host, heap, goVars, pyVars, rsVars, cValue>>

\* DAFFProperties::getChannelLabel: the label of channel c, empty where the
\* file has none for it.
Native_getChannelLabel(f, c) ==
    CASE f = "ir.daff" -> IF c = 1 THEN "Right" ELSE ""
      [] f = "mps.daff" -> IF c = 0 THEN "L" ELSE "R"
      [] f = "ps.daff" -> "mono"
      [] OTHER -> ""

\* A variant of the loop over the channels that appends every label.
RECURSIVE PyChannelLabels_All(_, _)
PyChannelLabels_All(f, iChannels) ==
    IF iChannels <= 0 THEN <<>>
    ELSE Append(PyChannelLabels_All(f, iChannels - 1), Native_getChannelLabel(f, iChannels - 1))

\* daff_properties, the loop over c = 0 .. iChannels - 1 that appends the
\* label of channel c to the list when it is not empty.
RECURSIVE PyChannelLabels(_, _)
PyChannelLabels(f, iChannels) ==
    IF iChannels <= 0 THEN <<>>
    ELSE IF Native_getChannelLabel(f, iChannels - 1) # ""
    THEN Append(PyChannelLabels(f, iChannels - 1), Native_getChannelLabel(f, iChannels - 1))
    ELSE PyChannelLabels(f, iChannels - 1)

\* daff_properties, the fields every file has.
PyBaseProperties(f) ==
    [Filename |-> f,
     ChannelLabels |-> PyChannelLabels(f, FileChannels(f)),
     ContentType |-> Native_StrShortContentType(FileContentType(f)),
     NumChannels |-> FileChannels(f),
     NumRecords |-> FileRecords(f),
     AlphaPoints |-> FileAlphaPoints(f),
     AlphaResolution |-> FileAlphaRes(f),
     BetaPoints |-> FileBetaPoints(f),
     BetaResolution |-> FileBetaRes(f)]

\* What the content headers hold besides the shape: getSamplerate,
\* getFrequencies, getTransformSize, isSymmetric, getFrequencyBandwidth.
Native_getSamplerate(f) == 44100
Native_getFrequencies(f) == Array([i \in 1..FileShape(f) |-> 1000 * i], FileShape(f))
Native_getTransformSize(f) == 2 * FileShape(f)
Native_isSymmetric(f) == TRUE
Native_getFrequencyBandwidth(f) == Native_getSamplerate(f) \div Native_getTransformSize(f)

\* daff_properties, the fields of the content type. The content object is
\* cast to DAFFContentIR for an IR file, to DAFFContentMS for an MS, a PS or
\* an MPS file and to DAFFContentDFT for a DFT file, and the result is used
\* unchecked: where the cast yields null the calls through it are undefined.
PyContentProperties(pReader) ==
    LET f == heap[pReader].file
        t == FileContentType(f)
        X == IF t \in {ContentTypeMS, ContentTypePS, ContentTypeMPS} THEN ContentTypeMS ELSE t
        pContent == Native_getContentAs(X, pReader)
    IN  IF X = ContentTypeIR
        THEN {Out("ok", <<[Samplerate |-> Native_getSamplerate(f),
                           FilterLength |-> Native_getShape(f)]>>, "live")}
        ELSE IF X = ContentTypeMS
        THEN IF pContent = NullContent
             THEN Undefined({<<[NumFreqs |-> 0, Frequencies |-> <<>>]>>}, "live")
             ELSE {Out("ok", <<[NumFreqs |-> Native_getShape(f),
                                Frequencies |-> Native_getFrequencies(f)]>>, "live")}
        ELSE {Out("ok", <<[TransformSize |-> Native_getTransformSize(f),
                           NumDFTCoeffs |-> Native_getShape(f),
                           IsSymmetric |-> Native_isSymmetric(f),
                           Samplerate |-> Native_getSamplerate(f),
                           FrequencyBandwidth |-> Native_getFrequencyBandwidth(f)]>>, "live")}

\* daff_properties
daff_properties(iHandle) ==
    /\ host = "python" /\ Running
    /\ \E o \in (IF ~ValidHandle(iHandle) THEN {InvalidHandle}
                 ELSE LET f == heap[g_mReader[iHandle]].file
                      IN  { IF c.outcome = "ok"
                            THEN Out("ok", <<PyBaseProperties(f), c.val[1]>>, "live")
                            ELSE c : c \in PyContentProperties(g_mReader[iHandle]) }) :
          ret' = Ret("properties", o.outcome, <<iHandle>>, o.val, o.reached)
    /\ UNCHANGED <<host, heap, goVars, pyVars, rsVars, cValue>>

\* The handles a Python caller tries, and the directions callers ask for, in
\* degrees: a Python caller passes the degrees as they are.
PyHandleArgs == 1..(MaxPyOpens + 1)
Angle1Args == {0, 45}
Angle2Args(view) == IF view = DAFF_OBJECT_VIEW THEN {-60, 30} ELSE {30, 90}

PyNext ==
    \/ \E f \in Files : daff_open(f)
    \/ \E h \in PyHandleArgs : daff_close(h)
    \/ \E h \in PyHandleArgs, rec \in AllRecordArgs : daff_record(h, rec)
    \/ \E h \in PyHandleArgs, view \in Views, a1 \in Angle1Args :
          \E a2 \in Angle2Args(view) : daff_nearest_neighbour_index(h, view, a1, a2)
    \/ \E h \in PyHandleArgs, view \in Views :
          \E a2 \in Angle2Args(view) : daff_nearest_neighbour_record(h, view, 45, a2)
    \/ \E h \in PyHandleArgs : daff_content_type(h)
    \/ \E h \in PyHandleArgs : daff_content_type_str(h)
    \/ \E h \in PyHandleArgs : daff_metadata(h)
    \/ \E h \in PyHandleArgs : daff_properties(h)


\* GoDAFF_ContentIR_GetNearestNeighbour / ContentMS_... / ContentDFT_...:
\* the object view is fixed and the out-of-bounds flag is not asked for.
GoDAFF_Content_GetNearestNeighbour(content, phi, theta) ==
    IF content = NullContent THEN {Out("ok", <<-1>>, "none")}
    ELSE IF ~ContentLive(content)
    THEN Undefined({<<-1>>, <<0>>}, "stale")
    ELSE {Out("ok", <<Native_getNearestNeighbour(content.file, DAFF_OBJECT_VIEW, phi, theta).index>>,
              "live")}

\* GoDAFF_ContentIR_GetRecordCoords / ContentMS_... / ContentDFT_...: the
\* data view is fixed; the result of the native call is dropped, the two
\* locals are copied out and true is returned, so for an index out of range
\* the caller gets what the uninitialised locals held.
GoDAFF_Content_GetRecordCoords(content, recordIndex) ==
    IF content = NullContent THEN {Out("fail", <<>>, "none")}
    ELSE IF ~ContentLive(content)
    THEN Undefined({<<Num(g), Num(g)>> : g \in Garbage}, "stale")
    ELSE LET r == Native_getRecordCoords(content.file, recordIndex, DAFF_DATA_VIEW)
         IN  IF r.err = "DAFF_NO_ERROR"
             THEN {Out("ok", r.coords, "live")}
             ELSE {Out("ok", <<Num(g), Num(g)>>, "live") : g \in Garbage}

\* ContentIR.GetRecordCoords / ContentMS.GetRecordCoords / ...
GetRecordCoords(recordIndex) ==
    /\ host = "go" /\ Running /\ acc # NoAcc
    /\ recordIndex \in RecordArgs(acc.handle.file)
    /\ \E o \in GoDAFF_Content_GetRecordCoords(acc.handle, recordIndex) :
          ret' = Ret("GetRecordCoords", o.outcome, <<acc.kind, recordIndex>>, o.val, o.reached)
    /\ UNCHANGED <<host, heap, reader, acc, pyVars, rsVars, cValue>>

\* The numbers a Go caller passes for a direction: its radians, as the
\* package documents.
GoAngleArgs(degrees) == {Rad(d) : d \in degrees}

\* ContentIR.GetNearestNeighbour / ContentMS.GetNearestNeighbour / ...
GetNearestNeighbour(phi, theta) ==
    /\ host = "go" /\ Running /\ acc # NoAcc
    /\ \E o \in GoDAFF_Content_GetNearestNeighbour(acc.handle, phi, theta) :
          ret' = Ret("GetNearestNeighbour", o.outcome, <<acc.kind, phi, theta>>, o.val, o.reached)
    /\ UNCHANGED <<host, heap, reader, acc, pyVars, rsVars, cValue>>

\* ------------------------------------------------- Go: the enumerations
QuantizationInt16 == 1
QuantizationInt24 == 2
QuantizationFloat32 == 3

\* A variant of ContentType.String without the case for ContentTypeDFT.
ContentType_String_NoDFT(c) ==
    CASE c = ContentTypeIR -> "ImpulseResponse"
      [] c = ContentTypeMS -> "MagnitudeSpectrum"
      [] c = ContentTypePS -> "PhaseSpectrum"
      [] c = ContentTypeMPS -> "MagnitudePhaseSpectrum"
      [] OTHER -> "Unknown"

\* func (c ContentType) String() string
ContentType_String(c) ==
    CASE c = ContentTypeIR -> "ImpulseResponse"
      [] c = ContentTypeMS -> "MagnitudeSpectrum"
      [] c = ContentTypePS -> "PhaseSpectrum"
      [] c = ContentTypeMPS -> "MagnitudePhaseSpectrum"
      [] c = ContentTypeDFT -> "DFT"
      [] OTHER -> "Unknown"

\* func (q Quantization) String() string
Quantization_String(q) ==
    CASE q = QuantizationInt16 -> "Int16"
      [] q = QuantizationInt24 -> "Int24"
      [] q = QuantizationFloat32 -> "Float32"
      [] OTHER -> "Unknown"

\* The integers the program renders: the named values and their neighbours.
EnumArgs == -1..6

\* The program calls String() on a ContentType or on a Quantization.
String(type, v) ==
    /\ host = "go" /\ Running
    /\ ret' = Ret("String", "ok", <<type, v>>,
                  <<IF type = "ContentType" THEN ContentType_String(v)
                    ELSE Quantization_String(v)>>, "none")
    /\ UNCHANGED <<host, heap, reader, acc, pyVars, rsVars, cValue>>

GoNext ==
    \/ \E type \in {"ContentType", "Quantization"}, v \in EnumArgs : String(type, v)
    \/ NewReader
    \/ Close
    \/ Finalizer
    \/ \E f \in Files : OpenFile(f)
    \/ CloseFile
    \/ IsValid
    \/ \E key \in Keys : HasMetadata(key)
    \/ \E kind \in GoMetaKinds, key \in Keys : GetMetadata(kind, key)
    \/ \E name \in ReaderProperties : GetProperty(name)
    \/ \E X \in ContentTypes : GetContent(X)
    \/ GetShape
    \/ \E rec \in AllRecordArgs, ch \in AllChannelArgs : GetData(rec, ch)
    \/ \E X \in ContentTypes : GetDataZeroValue(X)
    \/ \E rec \in AllRecordArgs, ch \in AllChannelArgs, bufferSize \in AllBufferArgs :
          Content_GetData(rec, ch, bufferSize)
    \/ \E phi \in GoAngleArgs(Angle1Args), theta \in GoAngleArgs(Angle2Args(DAFF_OBJECT_VIEW)) :
          GetNearestNeighbour(phi, theta)
    \/ \E rec \in AllRecordArgs : GetRecordCoords(rec)
    \/ (ret.op = "GetRecordCoords" /\ ret.outcome = "ok"
          /\ GetNearestNeighbour(ret.val[1], ret.val[2]))

\* ------------------------------------ Rust: the C interface from threads
\* A Rust program with two threads, each working on a reader of its own
\* through the functions of daff_rust_wrapper.cpp. A thread_local variable
\* of the wrapper is a function of the thread. (The wrapper of the Go
\* binding is the same code under the prefix GoDAFF; the Go package has no
\* call that reads g_lastError, so the message is kept here, for a caller
\* who can read it.)
Threads == {1, 2}
RustFiles == {"ir.daff", "corrupt.daff"}
RustKeys == {"Description", "Gain"}

\* A variant of SetLastError for a g_lastError declared static without
\* thread_local: one message for all threads.
SetLastError_Shared(t, error) == [u \in Threads |-> error]

\* SetLastError, called on thread t
SetLastError(t, error) == [g_lastError EXCEPT ![t] = error]

\* A variant of RustDAFF_OpenFile that empties the thread's message when the
\* open succeeds.
RustDAFF_OpenFile_ClearOnSuccess(t, handle, f) ==
    IF handle = Nil
    THEN [result |-> FALSE, heap |-> heap,
          lastError |-> SetLastError(t, "Invalid handle or filename")]
    ELSE LET r == Native_openFile(heap[handle], f)
         IN  [result |-> (r.err = "DAFF_NO_ERROR"),
              heap |-> [heap EXCEPT ![handle] = r.rd],
              lastError |-> IF r.err # "DAFF_NO_ERROR"
                            THEN SetLastError(t, "Failed to open file: " \o f)
                            ELSE SetLastError(t, "")]

\* RustDAFF_OpenFile called on thread t: the result, the heap and g_lastError
\* afterwards.
RustDAFF_OpenFile(t, handle, f) ==
    IF handle = Nil
    THEN [result |-> FALSE, heap |-> heap,
          lastError |-> SetLastError(t, "Invalid handle or filename")]
    ELSE LET r == Native_openFile(heap[handle], f)
         IN  [result |-> (r.err = "DAFF_NO_ERROR"),
              heap |-> [heap EXCEPT ![handle] = r.rd],
              lastError |-> IF r.err # "DAFF_NO_ERROR"
                            THEN SetLastError(t, "Failed to open file: " \o f)
                            ELSE g_lastError]

\* Thread t calls RustDAFF_Create; the program makes one reader per thread.
Rust_Create(t) ==
    /\ host = "rust" /\ Running
    /\ rsReader[t] = Nil /\ Len(heap) < Cardinality(Threads)
    /\ heap' = Append(heap, Native_create)
    /\ rsReader' = [rsReader EXCEPT ![t] = Len(heap) + 1]
    /\ ret' = Ret("RustDAFF_Create", "ok", <<t>>, <<Len(heap) + 1>>, "none")
    /\ UNCHANGED <<host, goVars, pyVars, g_lastError, GetMetadataString_value, cValue>>

\* Thread t calls RustDAFF_OpenFile with the handle it holds (null before
\* it has created its reader).
Rust_OpenFile(t, f) ==
    /\ host = "rust" /\ Running
    /\ (rsReader[t] # Nil /\ FileValid(f)) => heap[rsReader[t]].gen < MaxOpens
    /\ LET r == RustDAFF_OpenFile(t, rsReader[t], f)
       IN  /\ heap' = r.heap
           /\ g_lastError' = r.lastError
           /\ ret' = Ret("RustDAFF_OpenFile", IF r.result THEN "ok" ELSE "fail",
                         <<t, rsReader[t], f>>, <<>>,
                         IF rsReader[t] = Nil THEN "none" ELSE "live")
    /\ UNCHANGED <<host, goVars, pyVars, rsReader, GetMetadataString_value, cValue>>

\* Thread t calls RustDAFF_GetLastError and reads the message.
Rust_GetLastError(t) ==
    /\ host = "rust" /\ Running
    /\ ret' = Ret("RustDAFF_GetLastError", "ok", <<t>>, <<g_lastError[t]>>, "none")
    /\ UNCHANGED <<host, heap, goVars, pyVars, rsVars, cValue>>

\* Thread t calls RustDAFF_GetMetadataString and reads the string behind the
\* pointer it gets: the thread's buffer, which the call has assigned.
Rust_GetMetadataString(t, key) ==
    /\ host = "rust" /\ Running
    /\ \E o \in GoDAFF_GetMetadata("STRING", rsReader[t], key) :
          /\ GetMetadataString_value' =
                IF o.outcome = "ok"
                THEN [GetMetadataString_value EXCEPT ![t] = o.val[1]]
                ELSE GetMetadataString_value
          /\ ret' = Ret("RustDAFF_GetMetadataString", o.outcome, <<t, key>>,
                        IF o.outcome = "ok" THEN <<GetMetadataString_value'[t]>> ELSE <<>>,
                        o.reached)
    /\ UNCHANGED <<host, heap, goVars, pyVars, rsReader, g_lastError, cValue>>

RustNext ==
    \/ \E t \in Threads : Rust_Create(t)
    \/ \E t \in Threads, f \in RustFiles : Rust_OpenFile(t, f)
    \/ \E t \in Threads : Rust_GetLastError(t)
    \/ \E t \in Threads, key \in RustKeys : Rust_GetMetadataString(t, key)

\* ------------------------------- Go: GetMetadataString from goroutines
\* A Go program that has opened ir.daff with one Reader and then reads
\* metadata strings from two goroutines. The runtime runs each C call of a
\* goroutine on one of its threads, and may run another goroutine on that
\* thread at any point of the Go code in between.
Goroutines == {1, 2}
StringKeys == {"Description", "Author"}
NoCValue == [thread |-> Nil, key |-> "", fresh |-> TRUE]

\* GoDAFF_GetMetadataString called by goroutine g on thread t for a string
\* key of the file: the thread's buffer is assigned the value and a pointer
\* to its characters is returned. A pointer into the same buffer that
\* another goroutine still holds is to the old characters no more.
GoDAFF_GetMetadataString(g, t, key) ==
    [value |-> [GetMetadataString_value EXCEPT ![t] =
                   Native_getKey(heap[reader.handle].file, key, "STRING").val],
     cValue |-> [h \in Goroutines |->
                   IF h = g THEN [thread |-> t, key |-> key, fresh |-> TRUE]
                   ELSE IF cValue[h].thread = t THEN [cValue[h] EXCEPT !.fresh = FALSE]
                   ELSE cValue[h]]]

\* Reader.GetMetadataString, up to the return of the C call
GetMetadataString_Call(g, t, key) ==
    /\ host = "goroutines" /\ Running
    /\ cValue[g] = NoCValue
    /\ LET r == GoDAFF_GetMetadataString(g, t, key)
       IN  /\ GetMetadataString_value' = r.value
           /\ cValue' = r.cValue
    /\ ret' = Ret("GoDAFF_GetMetadataString", "ok", <<g, key>>, <<t>>, "live")
    /\ UNCHANGED <<host, heap, goVars, pyVars, rsReader, g_lastError>>

\* Reader.GetMetadataString, the rest: C.GoString(cValue) copies the
\* characters the pointer is to. After the buffer was assigned again these
\* are the characters of the later value, or the memory the buffer has
\* given back.
GetMetadataString_GoString(g) ==
    /\ host = "goroutines" /\ Running
    /\ cValue[g] # NoCValue
    /\ \E o \in (IF cValue[g].fresh
                 THEN {Out("ok", <<GetMetadataString_value[cValue[g].thread]>>, "live")}
                 ELSE Undefined({<<GetMetadataString_value[cValue[g].thread]>>, <<"">>},
                                "stale")) :
          ret' = Ret("Reader.GetMetadataString", o.outcome, <<g, cValue[g].key>>,
                     o.val, o.reached)
    /\ cValue' = [cValue EXCEPT ![g] = NoCValue]
    /\ UNCHANGED <<host, heap, goVars, pyVars, rsVars>>

GoroutinesNext ==
    \/ \E g \in Goroutines, t \in Threads, key \in StringKeys :
          GetMetadataString_Call(g, t, key)
    \/ \E g \in Goroutines : GetMetadataString_GoString(g)

\* The Go program with goroutines starts with its Reader made and ir.daff
\* open.
InitGoroutines ==
    /\ host = "goroutines"
    /\ heap = <<Native_openFile(Native_create, "ir.daff").rd>>
    /\ reader = [made |-> TRUE, handle |-> 1]

Init ==
    /\ \/ /\ host \in {"go", "python", "rust"}
          /\ heap = <<>>
          /\ reader = NoReader
       \/ InitGoroutines
    /\ cValue = [g \in Goroutines |-> NoCValue]
    /\ acc = NoAcc
    /\ g_mReader = [h \in {} |-> Nil]
    /\ g_iLastHandle = 0
    /\ rsReader = [t \in Threads |-> Nil]
    /\ g_lastError = [t \in Threads |-> ""]
    /\ GetMetadataString_value = [t \in Threads |-> ""]
    /\ ret = Ret("init", "ok", <<>>, <<>>, "none")

Next == GoNext \/ PyNext \/ RustNext \/ GoroutinesNext

Spec == Init /\ [][Next]_vars

\* =================================================================== claims

\* The file a Go reader handle holds, and the file behind a Python handle.
GoFile == heap[reader.handle].file
PyFile(iHandle) == heap[g_mReader[iHandle]].file

\* What IsValid answers for the Go reader.
GoValid == GoDAFF_IsValid(reader.handle)

\* A step of daff_open: the one Python operation that creates a native reader.
PyOpenStep == host = "python" /\ Len(heap') = Len(heap) + 1

\* ---- C1 ----------------------------------------------------------------
\* C1: open is atomic. A Python open() that fails raises, leaves the handle
\* table and the last-handle counter as they were, and has destroyed the
\* reader it created; after a Go OpenFile that fails, IsValid is false.
C1_OpenAtomic ==
    [][ /\ (PyOpenStep /\ ret'.outcome # "ok") =>
              /\ ret'.outcome = "raise"
              /\ g_mReader' = g_mReader
              /\ g_iLastHandle' = g_iLastHandle
              /\ heap'[Len(heap')].st = "freed"
        /\ (host = "go" /\ ret'.op = "OpenFile" /\ ret'.outcome # "ok") =>
              /\ ret'.outcome = "fail"
              /\ ~GoValid'
      ]_vars

\* A Python open() failed after an earlier one had succeeded.
C1_Witness ==
    /\ ret.op = "open" /\ ret.outcome = "raise"
    /\ g_iLastHandle >= 1
    /\ heap[Len(heap)].st = "freed"

\* ---- C2 ----------------------------------------------------------------
\* C2: views die with the handle. No call on a Go content accessor reaches
\* a native content object that CloseFile or Close has closed or destroyed;
\* the call on the stale accessor fails instead.
C2_ViewsDieWithHandle ==
    ret.op \in {"GetShape", "GetData", "Content_GetData", "GetNearestNeighbour"} =>
        /\ ret.reached # "stale"
        /\ (~ContentLive(acc.handle) => ret.outcome = "fail")

\* ---- C3 ----------------------------------------------------------------
\* C3: bounds checking. On an open file a data read with a record index
\* outside [0, recordCount) or a channel outside [0, channelCount) reports
\* failure: the Go getter returns an error, the Python record() raises.
C3_BoundsChecked ==
    /\ (ret.op \in {"GetData", "Content_GetData"} /\ ret.reached = "live"
          /\ (ret.args[2] \notin 0..(FileRecords(acc.handle.file) - 1)
              \/ ret.args[3] \notin 0..(FileChannels(acc.handle.file) - 1)))
        => ret.outcome = "fail"
    /\ (ret.op = "record" /\ ret.reached = "live"
          /\ ret.args[2] \notin 0..(FileRecords(PyFile(ret.args[1])) - 1))
        => ret.outcome = "raise"

\* ---- C4 ----------------------------------------------------------------
\* C4: metadata type safety. A typed getter called on a key that is present
\* with another kind reports failure; it never returns a value with success.
C4_MetadataTypeSafe ==
    (ret.op = "GetMetadata" /\ ret.reached = "live"
       /\ ret.args[2] \in DOMAIN FileMetadata(GoFile)
       /\ FileMetadata(GoFile)[ret.args[2]].kind # ret.args[1])
    => ret.outcome = "fail"

\* ---- C5 ----------------------------------------------------------------
\* C5: content-type dispatch. On an open file of type T, GetContentX
\* succeeds exactly when X = T and then yields the live content object as
\* an accessor of type X; otherwise it yields the null handle. Exactly one
\* of the five accessors succeeds on an open file.
C5_ContentDispatch ==
    /\ (ret.op = "GetContent" /\ ret.reached = "live") =>
          /\ (ret.outcome = "ok") = (ret.args[1] = FileContentType(GoFile))
          /\ ret.outcome = "ok" =>
                /\ acc = [kind |-> ret.args[1], handle |-> ret.val[1]]
                /\ ContentLive(acc.handle) /\ acc.handle.rid = reader.handle
          /\ ret.outcome # "ok" => ret.outcome = "fail" /\ ret.val[1] = NullContent
    /\ GoDAFF_IsValid(reader.handle) =>
          Cardinality({X \in ContentTypes :
                         \E o \in GoDAFF_GetContent(X, reader.handle) : o.outcome = "ok"}) = 1

\* GetContentX failed on an open file of another type than X.
C5_Witness ==
    /\ ret.op = "GetContent" /\ ret.reached = "live" /\ ret.outcome = "fail"
    /\ acc # NoAcc /\ ContentLive(acc.handle)

\* ---- C6 ----------------------------------------------------------------
\* C6: validity follows the lifecycle. IsValid is false for a new reader,
\* true after a successful OpenFile, false after a failed OpenFile, after
\* CloseFile and after Close (called by the program or run as the finalizer),
\* and no other call changes it; so it is true exactly when the last
\* lifecycle call was a successful OpenFile.
C6_ValidityLifecycle ==
    [][ host = "go" =>
          /\ ret'.op = "NewReader" => ~GoValid'
          /\ ret'.op = "OpenFile" => (GoValid' = (ret'.outcome = "ok"))
          /\ ret'.op \in {"CloseFile", "Close", "Finalizer"} => ~GoValid'
          /\ ret'.op \notin {"NewReader", "OpenFile", "CloseFile", "Close", "Finalizer"} =>
                (GoValid' = GoValid)
          /\ ret'.op = "IsValid" => ret'.val = <<GoValid>>
      ]_vars

\* IsValid answered true, after a successful OpenFile that followed another
\* open of the same reader.
C6_Witness ==
    /\ ret.op = "IsValid" /\ ret.val = <<TRUE>>
    /\ heap[reader.handle].gen >= 2

\* ---- C7 ----------------------------------------------------------------
\* C7: record data length. For a valid record index and channel of an open
\* file the Go getter returns filterLength (IR), numFrequencies (MS, PS) or
\* 2 x numDFTCoeffs (DFT) floats, and the Python record() returns one list
\* per channel, each with as many elements as the shape parameter.
C7_RecordDataLength ==
    /\ (ret.op = "GetData" /\ ret.reached = "live" /\ ret.args[1] # ContentTypeMPS
          /\ ret.args[2] \in 0..(FileRecords(acc.handle.file) - 1)
          /\ ret.args[3] \in 0..(FileChannels(acc.handle.file) - 1))
        => /\ ret.outcome = "ok"
           /\ Len(ret.val[1]) = (IF ret.args[1] = ContentTypeDFT
                                 THEN 2 * FileShape(acc.handle.file)
                                 ELSE FileShape(acc.handle.file))
    /\ (ret.op = "record" /\ ret.reached = "live"
          /\ ret.args[2] \in 0..(FileRecords(PyFile(ret.args[1])) - 1))
        => /\ ret.outcome = "ok"
           /\ Len(ret.val[1]) = FileChannels(PyFile(ret.args[1]))
           /\ \A c \in 1..Len(ret.val[1]) :
                 Len(ret.val[1][c]) = FileShape(PyFile(ret.args[1]))

\* ---- C8 ----------------------------------------------------------------
\* C8: a failed accessor call changes nothing. A Python operation called
\* with a handle that is not in the table raises and leaves the table, the
\* counter and the native readers as they were; a Go accessor that fails
\* leaves the reader, its file and the accessors as they were.
PyHandleOps ==
    {"close", "record", "nearest_neighbour_index", "nearest_neighbour_record",
     "content_type", "content_type_str", "metadata", "properties"}
GoAccessorOps ==
    {"HasMetadata", "GetMetadata", "GetContent", "GetShape", "GetData", "Content_GetData",
     "GetNearestNeighbour"}

C8_FailedCallChangesNothing ==
    [][ /\ (host = "python" /\ ret'.op \in PyHandleOps /\ ~ValidHandle(ret'.args[1])) =>
              /\ ret'.outcome = "raise"
              /\ g_mReader' = g_mReader
              /\ g_iLastHandle' = g_iLastHandle
              /\ heap' = heap
        /\ (host = "go" /\ ret'.op \in GoAccessorOps /\ ret'.outcome = "fail") =>
              /\ heap' = heap
              /\ reader' = reader
              /\ acc' = acc
      ]_vars

\* A Python call raised on an invalid handle while another handle was open.
C8_Witness ==
    /\ ret.op \in PyHandleOps /\ ret.outcome = "raise"
    /\ DOMAIN g_mReader # {}
    /\ ret.args[1] \notin DOMAIN g_mReader

\* ---- C9 ----------------------------------------------------------------
\* C9: missing metadata key. For a key the open file does not have,
\* HasMetadata returns false and each typed getter reports failure and
\* writes no output value.
C9_MissingKey ==
    /\ (ret.op = "HasMetadata" /\ ret.reached = "live"
          /\ ret.args[1] \notin DOMAIN FileMetadata(GoFile))
        => ret.outcome = "ok" /\ ret.val = <<FALSE>>
    /\ (ret.op = "GetMetadata" /\ ret.reached = "live"
          /\ ret.args[2] \notin DOMAIN FileMetadata(GoFile))
        => ret.outcome = "fail" /\ ret.val = <<>>

\* A typed getter was called for a key the open file does not have.
C9_Witness ==
    /\ ret.op = "GetMetadata" /\ ret.reached = "live"
    /\ ret.args[2] \notin DOMAIN FileMetadata(GoFile)
    /\ ret.outcome = "fail"

\* ---- C10 ---------------------------------------------------------------
\* Cosines of the multiples of 15 degrees, in ten-thousandths.
CosDeg(d) ==
    LET tab == <<10000, 9659, 8660, 7071, 5000, 2588, 0>>
        x == (d + 360) % 360
        y == IF x > 180 THEN 360 - x ELSE x
    IN  IF y <= 90 THEN tab[(y \div 15) + 1] ELSE 0 - tab[((180 - y) \div 15) + 1]

SinDeg(d) == CosDeg(d + 270)

\* The cosine of the great-circle distance between two directions given in
\* the data view (alpha the azimuth, beta the polar angle), in
\* ten-thousandths, exact to within 5.
CosDist(p, q) ==
    ((CosDeg(p[2]) * CosDeg(q[2])) \div 10000)
    + ((((SinDeg(p[2]) * SinDeg(q[2])) \div 10000) * CosDeg(p[1] - q[1])) \div 10000)

\* The direction the core works with lies on the lattice of the table.
OnLattice(d) == d.alpha % 15 = 0 /\ d.beta % 15 = 0

\* Record rec of file f is at least as near to direction q as every record
\* of the file (a larger cosine is a smaller distance; the 10 absorbs the
\* rounding of the table).
Nearest(f, rec, q) ==
    /\ rec \in 0..(FileRecords(f) - 1)
    /\ \A other \in 0..(FileRecords(f) - 1) :
          CosDist(q, Native_recordDirection(f, rec)) + 10
             >= CosDist(q, Native_recordDirection(f, other))

\* C10: nearest-neighbour correctness. The record index a nearest-neighbour
\* query returns on an open file is a record whose direction is at most as
\* far from the query direction, by great-circle distance, as every other
\* record of the file.
C10_NearestNeighbourCorrect ==
    /\ (ret.op = "nearest_neighbour_index" /\ ret.outcome = "ok") =>
          LET d == Native_toDataView(ret.args[2], Native_degrees(Num(ret.args[3])),
                                     Native_degrees(Num(ret.args[4])))
          IN  OnLattice(d) => Nearest(PyFile(ret.args[1]), ret.val[1], <<d.alpha, d.beta>>)
    /\ (ret.op = "GetNearestNeighbour" /\ ret.reached = "live") =>
          LET d == Native_toDataView(DAFF_OBJECT_VIEW, Native_degrees(ret.args[2]),
                                     Native_degrees(ret.args[3]))
          IN  OnLattice(d) => Nearest(acc.handle.file, ret.val[1], <<d.alpha, d.beta>>)

\* ---- C11 ---------------------------------------------------------------
\* C11: nearest-neighbour round trip. When a Go caller asks for the
\* coordinates of a record r of the open file and passes the two numbers it
\* got to GetNearestNeighbour, the index that comes back is r.
C11_RoundTrip ==
    [][ ( /\ ret.op = "GetRecordCoords" /\ ret.reached = "live"
          /\ ret.args[2] \in 0..(FileRecords(acc.handle.file) - 1)
          /\ ret'.op = "GetNearestNeighbour" /\ ret'.reached = "live"
          /\ ret'.args[2] = ret.val[1] /\ ret'.args[3] = ret.val[2] )
        => ret'.val = <<ret.args[2]>>
      ]_vars

\* ---- C12 ---------------------------------------------------------------
\* C12: one angle unit reaches the core. A Python caller asking for the
\* direction (d1, d2) degrees in the object view has the core work with that
\* direction, and gets the record index a Go caller gets who asks for the
\* same direction of the same file in radians.
C12_OneAngleUnit ==
    (ret.op = "nearest_neighbour_index" /\ ret.outcome = "ok"
       /\ ret.args[2] = DAFF_OBJECT_VIEW)
    => /\ Native_degrees(Num(ret.args[3])) = ret.args[3]
       /\ Native_degrees(Num(ret.args[4])) = ret.args[4]
       /\ LET pReader == g_mReader[ret.args[1]]
          IN  \A o \in GoDAFF_Content_GetNearestNeighbour(ContentPtr(pReader, heap[pReader]),
                                                         Rad(ret.args[3]), Rad(ret.args[4])) :
                 o.outcome = "ok" /\ o.val = <<ret.val[1]>>

\* ---- C13 ---------------------------------------------------------------
\* The direction asked for lies outside the angular coverage of file f.
OutsideCoverage(f, view, a1, a2) ==
    LET d == Native_toDataView(view, Native_degrees(a1), Native_degrees(a2))
    IN  d.beta < FileBetaStart(f) \/ d.beta > FileBetaEnd(f)

\* C13: out-of-bounds reporting. A nearest-neighbour query on an open file
\* gives its caller a record index in [0, recordCount) and a flag that is
\* true exactly when the direction is outside the file's coverage, in the
\* Python binding and in the Go binding.
C13_OutOfBoundsReported ==
    /\ (ret.op = "nearest_neighbour_index" /\ ret.outcome = "ok")
        => LET f == PyFile(ret.args[1])
           IN  /\ ret.val[1] \in 0..(FileRecords(f) - 1)
               /\ Len(ret.val) = 2
               /\ ret.val[2] = OutsideCoverage(f, ret.args[2], Num(ret.args[3]), Num(ret.args[4]))
    /\ (ret.op = "GetNearestNeighbour" /\ ret.reached = "live")
        => LET f == acc.handle.file
           IN  /\ ret.val[1] \in 0..(FileRecords(f) - 1)
               /\ Len(ret.val) = 2
               /\ ret.val[2] = OutsideCoverage(f, DAFF_OBJECT_VIEW, ret.args[2], ret.args[3])

\* ---- C14 ---------------------------------------------------------------
\* The extra fields properties() adds for a file of content type t.
ExtraFields(t) ==
    IF t = ContentTypeIR THEN {"Samplerate", "FilterLength"}
    ELSE IF t = ContentTypeDFT
    THEN {"TransformSize", "NumDFTCoeffs", "IsSymmetric", "Samplerate", "FrequencyBandwidth"}
    ELSE {"NumFreqs", "Frequencies"}

\* C14: content-specific properties. properties(handle) on an open file of
\* any of the five content types succeeds and adds exactly the extra fields
\* of that type; for MS, PS and MPS the Frequencies list has NumFreqs
\* entries, NumFreqs being the file's number of frequencies.
C14_ContentProperties ==
    (ret.op = "properties" /\ ret.reached = "live")
    => /\ ret.outcome = "ok"
       /\ LET f == PyFile(ret.args[1])
              extra == ret.val[2]
          IN  /\ DOMAIN extra = ExtraFields(FileContentType(f))
              /\ FileContentType(f) \in {ContentTypeMS, ContentTypePS, ContentTypeMPS}
                   => /\ extra.NumFreqs = FileShape(f)
                      /\ Len(extra.Frequencies) = extra.NumFreqs

\* ---- C15 ---------------------------------------------------------------
\* C15: all four metadata kinds are exposed. The dictionary of the Python
\* metadata() has the file's keys, each with the stored value in the stored
\* kind; and a key the Go reader reports as present has a Go getter of the
\* kind stored for it.
C15_AllKindsExposed ==
    /\ (ret.op = "metadata" /\ ret.outcome = "ok")
        => LET f == PyFile(ret.args[1])
           IN  /\ DOMAIN ret.val[1] = DOMAIN FileMetadata(f)
               /\ \A sKey \in DOMAIN FileMetadata(f) : ret.val[1][sKey] = FileMetadata(f)[sKey]
    /\ (ret.op = "HasMetadata" /\ ret.reached = "live" /\ ret.val = <<TRUE>>)
        => FileMetadata(GoFile)[ret.args[1]].kind \in GoMetaKinds

\* ---- C16 ---------------------------------------------------------------
\* C16: MPS retrieval. On an open MPS file GetCoefficients with a valid
\* record and channel returns magnitudes and phases of numFrequencies floats
\* each, element i of the two being elements 2i and 2i+1 of the core's
\* interleaved sequence; when the core reports an error the call fails, and
\* the wrapper has written to neither of the caller's buffers.
C16_MPSRetrieval ==
    (ret.op \in {"GetData", "Content_GetData"} /\ ret.args[1] = ContentTypeMPS
       /\ ret.reached = "live")
    => LET f == acc.handle.file
           n == FileShape(f)
           r == Native_getData(f, ret.args[2], ret.args[3])
       IN  /\ (r.err = "DAFF_NO_ERROR" /\ ret.outcome = "ok")
                => /\ Len(ret.val[1][1]) = n /\ Len(ret.val[1][2]) = n
                   /\ \A i \in 1..n : /\ ret.val[1][1][i] = r.data[(2 * i) - 1]
                                      /\ ret.val[1][2][i] = r.data[2 * i]
           /\ (r.err = "DAFF_NO_ERROR" /\ ret.op = "GetData") => ret.outcome = "ok"
           /\ r.err # "DAFF_NO_ERROR"
                => /\ ret.outcome = "fail"
                   /\ ret.op = "Content_GetData"
                        => ret.val = <<<<Zeros(ret.args[4]), Zeros(ret.args[4])>>>>

\* GetCoefficients has returned the two halves of a record of an MPS file
\* with two frequencies, and the magnitudes differ from the phases.
C16_Witness ==
    /\ ret.op = "GetData" /\ ret.args[1] = ContentTypeMPS /\ ret.reached = "live"
    /\ ret.outcome = "ok" /\ Len(ret.val[1][1]) = 2 /\ ret.val[1][1] # ret.val[1][2]

\* ---- C17 ---------------------------------------------------------------
\* C17: the Go data getters report failure as an error value. A call of
\* GetFilterCoeffs, GetMagnitudes, GetPhases, GetCoefficients or
\* GetDFTCoeffs on an accessor of an open file or on a zero-value accessor
\* returns data or returns an error; it does not panic.
C17_NoPanic ==
    (ret.op = "GetData" /\ ret.reached \in {"live", "none"})
    => ret.outcome \in {"ok", "fail"}

\* ---- C18 ---------------------------------------------------------------
\* C18: the native reader is released exactly once. No reader is ever
\* destroyed twice; a Go Reader whose handle is set holds a reader that has
\* not been destroyed, and once Close was called or the finalizer has run
\* the reader has been destroyed; a Close on a Reader whose handle is nil
\* returns nil and changes nothing.
C18_ReleasedOnce ==
    /\ [](\A h \in 1..Len(heap) : heap[h].st # "freed twice")
    /\ []((host = "go" /\ heap # <<>>)
            => IF reader.handle # Nil
               THEN heap[reader.handle].st = "live"
               ELSE heap[1].st = "freed")
    /\ [][(ret'.op = "Close" /\ reader.made /\ reader.handle = Nil)
            => (ret'.outcome = "ok" /\ heap' = heap /\ reader' = reader)]_vars

\* The finalizer has run on a Reader that had been closed before, and the
\* native reader is destroyed.
C18_Witness ==
    /\ ret.op = "Finalizer" /\ ret.args = <<Nil>> /\ ~reader.made
    /\ heap[1].st = "freed"

C20_ThreadsIndependent ==
    [][host = "rust"
         => \A u \in Threads :
               ret'.args[1] # u
                 => /\ g_lastError'[u] = g_lastError[u]
                    /\ GetMetadataString_value'[u] = GetMetadataString_value[u]
                    /\ rsReader'[u] = rsReader[u]
                    /\ rsReader[u] # Nil => heap'[rsReader[u]] = heap[rsReader[u]]]_vars

\* Thread 2 reads an empty last error while thread 1 has a failed open
\* recorded and a metadata string in its buffer that thread 2 has not.
C20_Witness ==
    /\ ret.op = "RustDAFF_GetLastError" /\ ret.args = <<2>> /\ ret.val = <<"">>
    /\ g_lastError[1] # ""
    /\ GetMetadataString_value[1] # GetMetadataString_value[2]
    /\ rsReader[2] # Nil

\* ---- C21 ---------------------------------------------------------------
\* C21: channel labels in properties. The ChannelLabels list of properties()
\* holds exactly the non-empty channel labels in increasing channel order;
\* it has at most NumChannels entries, and NumChannels entries exactly when
\* every channel has a non-empty label.
C21_ChannelLabels ==
    (ret.op = "properties" /\ ret.outcome = "ok")
    => LET f == PyFile(ret.args[1])
           n == FileChannels(f)
           all == [c \in 1..n |-> Native_getChannelLabel(f, c - 1)]
           labels == ret.val[1].ChannelLabels
           NonEmpty(l) == l # ""
       IN  /\ labels = SelectSeq(all, NonEmpty)
           /\ Len(labels) <= ret.val[1].NumChannels
           /\ (Len(labels) = ret.val[1].NumChannels) = (\A c \in 1..n : all[c] # "")

\* properties() of a file with two channels of which only the second has a
\* label returned a list with that one label.
C21_Witness ==
    /\ ret.op = "properties" /\ ret.outcome = "ok"
    /\ ret.val[1].NumChannels = 2
    /\ ret.val[1].ChannelLabels = <<"Right">>

\* ---- C22 ---------------------------------------------------------------
\* The names the two enumerations are to render.
ContentTypeNames ==
    <<"ImpulseResponse", "MagnitudeSpectrum", "PhaseSpectrum", "MagnitudePhaseSpectrum", "DFT">>
QuantizationNames == <<"Int16", "Int24", "Float32">>

\* C22: string rendering of the enumerations. ContentType.String() renders
\* 1..5 as five distinct names and Quantization.String() renders 1..3 as
\* Int16, Int24, Float32; every other integer renders as "Unknown".
C22_EnumStrings ==
    ret.op = "String"
    => LET names == IF ret.args[1] = "ContentType" THEN ContentTypeNames ELSE QuantizationNames
           v == ret.args[2]
       IN  /\ ret.val = <<IF v \in 1..Len(names) THEN names[v] ELSE "Unknown">>
           /\ \A i, j \in 1..Len(names) : names[i] = names[j] => i = j
           /\ \A i \in 1..Len(names) : names[i] # "Unknown"

\* ContentType(5) was rendered as "DFT"; ContentType(6) is "Unknown".
C22_Witness ==
    /\ ret.op = "String" /\ ret.args = <<"ContentType", 5>> /\ ret.val = <<"DFT">>
    /\ ContentType_String(6) = "Unknown"

\* ---- C23 ---------------------------------------------------------------
\* C23: Python record() buffer safety. When record() or
\* nearest_neighbour_record() has read a record of an open file, what the
\* native getter wrote and what GetRecordPython read of the per-channel
\* buffer lay inside the floats allocated for it, and the call returned.
C23_RecordBufferSafe ==
    (ret.op \in {"record", "nearest_neighbour_record"} /\ ret.reached = "live")
    => LET f == PyFile(ret.args[1])
       IN  /\ PyBufferWritten(f) <= PyBufferAlloc(f)
           /\ PyBufferRead(f) <= PyBufferAlloc(f)
           /\ ret.outcome # "terminated"

\* ---- C24 ---------------------------------------------------------------
\* C24: metadata string under concurrent goroutines. GetMetadataString(key)
\* returns the stored value of that key to the goroutine that called it,
\* whatever other goroutines read at the same time.
C24_MetadataStringPerCall ==
    ret.op = "Reader.GetMetadataString"
    => /\ ret.outcome = "ok"
       /\ ret.val = <<FileMetadata(GoFile)[ret.args[2]].val>>

\* ---- C25 ---------------------------------------------------------------
\* C25: Python close releases the reader. At every point of a Python
\* program the native readers that are allocated are the readers stored in
\* the handle table: close(h) has closed and destroyed the reader of h.
C25_CloseReleases ==
    host = "python"
    => {pReader \in 1..Len(heap) : heap[pReader].st = "live"}
         = {g_mReader[h] : h \in DOMAIN g_mReader}

\* ---- C26 ---------------------------------------------------------------
\* C26: Python close invalidates exactly one handle. A close(h) that
\* succeeds takes h out of the table and leaves every other handle mapped to
\* the reader it had; a handle that was given out and is in the table no
\* more never comes back; and an operation called with such a handle,
\* a second close(h) included, raises 'Invalid DAFF handle' and leaves the
\* table, the counter and the readers as they were.
C26_CloseInvalidatesOne ==
    [][ host = "python" =>
          /\ (ret'.op = "close" /\ ret'.outcome = "ok") =>
                /\ DOMAIN g_mReader' = DOMAIN g_mReader \ {ret'.args[1]}
                /\ \A h \in DOMAIN g_mReader' : g_mReader'[h] = g_mReader[h]
          /\ \A h \in 1..g_iLastHandle : ~ValidHandle(h) => h \notin DOMAIN g_mReader'
          /\ (ret'.op \in PyHandleOps /\ ret'.args[1] \in 1..g_iLastHandle
                /\ ~ValidHandle(ret'.args[1])) =>
                /\ ret'.outcome = "raise" /\ ret'.val = <<"Invalid DAFF handle">>
                /\ g_mReader' = g_mReader /\ g_iLastHandle' = g_iLastHandle /\ heap' = heap
      ]_vars

\* A second close of handle 1 has raised while handle 2 is still in the table.
C26_Witness ==
    /\ ret.op = "close" /\ ret.outcome = "raise" /\ ret.args = <<1>>
    /\ g_iLastHandle = 2 /\ DOMAIN g_mReader = {2}

\* ---- C27 ---------------------------------------------------------------
\* The opens that succeeded so far: a reader's generation counts its
\* successful openFile calls, and Python opens each reader once.
PySuccessfulOpens(h) == Cardinality({pReader \in 1..Len(h) : h[pReader].gen > 0})

\* C27: Python handles are unique and never reused. The n-th open that
\* succeeds returns n, which is positive, above every handle returned before
\* and in the table for the first time; an open that fails leaves the
\* counter where it was; and at all times the counter is the number of opens
\* that succeeded, so no closed handle's value is ever given out again.
C27_HandlesUnique ==
    [][ host = "python" =>
          /\ (PyOpenStep /\ ret'.outcome = "ok") =>
                /\ ret'.val = <<PySuccessfulOpens(heap) + 1>>
                /\ ret'.val[1] > 0
                /\ ret'.val[1] > g_iLastHandle
                /\ ret'.val[1] \notin DOMAIN g_mReader
                /\ g_iLastHandle' = ret'.val[1]
          /\ (PyOpenStep /\ ret'.outcome # "ok") =>
                /\ g_iLastHandle' = g_iLastHandle
                /\ PySuccessfulOpens(heap') = PySuccessfulOpens(heap)
          /\ ~PyOpenStep => g_iLastHandle' = g_iLastHandle
          /\ g_iLastHandle' = PySuccessfulOpens(heap')
          /\ DOMAIN g_mReader' \subseteq 1..g_iLastHandle'
      ]_vars

\* Handle 1 was closed, and the open after it has returned 2.
C27_Witness ==
    /\ ret.op = "open" /\ ret.outcome = "ok" /\ ret.val = <<2>>
    /\ DOMAIN g_mReader = {2}

\* ---- C28 ---------------------------------------------------------------
\* The methods of the Go Reader.
ReaderMethods == {"OpenFile", "IsValid", "HasMetadata", "GetProperty", "GetMetadata", "GetContent"}

\* C28: the Go Reader after Close. A Reader method called on a Reader whose
\* handle Close has set to nil reaches no native reader and changes none, and
\* returns its failure value: OpenFile an error, IsValid and HasMetadata
\* false, the integer properties -1 (a content type that renders as
\* "Unknown"), the resolutions -1.0, GetOrientation, the metadata getters and
\* every GetContentX an error.
C28_AfterClose ==
    [][ (host = "go" /\ reader.made /\ reader.handle = Nil /\ ret'.op \in ReaderMethods) =>
          /\ ret'.reached = "none"
          /\ heap' = heap /\ reader' = reader /\ acc' = acc
          /\ ret'.op \in {"OpenFile", "GetMetadata", "GetContent"} => ret'.outcome = "fail"
          /\ ret'.op \in {"IsValid", "HasMetadata"} =>
                (ret'.outcome = "ok" /\ ret'.val = <<FALSE>>)
          /\ (ret'.op = "GetProperty" /\ ret'.args[1] \in IntProperties \cup FloatProperties) =>
                (ret'.outcome = "ok" /\ ret'.val = <<-1>>)
          /\ (ret'.op = "GetProperty" /\ ret'.args = <<"ContentType">>) =>
                ContentType_String(ret'.val[1]) = "Unknown"
          /\ (ret'.op = "GetProperty" /\ ret'.args = <<"Orientation">>) =>
                ret'.outcome = "fail"
      ]_vars

\* GetContentType has returned -1 on a Reader that was opened and then closed.
C28_Witness ==
    /\ host = "go" /\ reader.made /\ reader.handle = Nil
    /\ Len(heap) = 1 /\ heap[1].st = "freed" /\ heap[1].gen > 0
    /\ ret.op = "GetProperty" /\ ret.args = <<"ContentType">> /\ ret.val = <<-1>>

\* ---- C29 ---------------------------------------------------------------
\* The floats a getter of type X writes to (each of) the caller's buffer(s)
\* for a record of file f: all the core hands back, or half of them to each
\* of the two buffers of GetCoefficients.
FloatsWritten(X, f) ==
    IF X = ContentTypeMPS THEN Native_dataLength(f) \div 2 ELSE Native_dataLength(f)

\* C29: the buffer-size guard of the C wrappers. A data getter called on the
\* content of an open file with bufferSize below the number of floats it
\* would write returns false and leaves the caller's buffer as it was; a
\* getter that returns true was given a buffer that holds all it wrote.
C29_BufferGuard ==
    (ret.op = "Content_GetData" /\ ret.reached = "live")
    => LET X == ret.args[1]
           bufferSize == ret.args[4]
           untouched == IF X = ContentTypeMPS
                        THEN <<Zeros(bufferSize), Zeros(bufferSize)>> ELSE Zeros(bufferSize)
       IN  /\ bufferSize < FloatsWritten(X, acc.handle.file)
                => (ret.outcome = "fail" /\ ret.val = <<untouched>>)
           /\ ret.outcome = "ok" => FloatsWritten(X, acc.handle.file) <= bufferSize

\* GetDFTCoeffs has refused a buffer one float short of 2 x numDFTCoeffs for
\* a record and a channel that exist.
C29_Witness ==
    /\ ret.op = "Content_GetData" /\ ret.reached = "live" /\ ret.outcome = "fail"
    /\ ret.args[1] = ContentTypeDFT /\ ret.args[2] = 0 /\ ret.args[3] = 0
    /\ ret.args[4] = (2 * FileShape(acc.handle.file)) - 1
    /\ ret.args[4] >= FileShape(acc.handle.file)

\* ---- C30 ---------------------------------------------------------------
\* C30: nearest_neighbour_record agrees with its two steps. Called with a
\* valid handle, neither nearest_neighbour_index nor nearest_neighbour_record
\* changes the handle table, and nearest_neighbour_record returns the lists
\* record(h, i) returns for the index i that nearest_neighbour_index gives
\* for the same view and angles.
C30_NearestNeighbourRecord ==
    [][ (host = "python"
           /\ ret'.op \in {"nearest_neighbour_index", "nearest_neighbour_record"}
           /\ ValidHandle(ret'.args[1])) =>
          /\ g_mReader' = g_mReader /\ g_iLastHandle' = g_iLastHandle /\ heap' = heap
          /\ ret'.op = "nearest_neighbour_record" =>
                LET f == PyFile(ret'.args[1])
                    i == Native_getNearestNeighbour(f, ret'.args[2], Num(ret'.args[3]),
                                                    Num(ret'.args[4])).index
                IN  /\ ret'.outcome = "ok"
                    /\ \A o \in GetRecordPython(f, i) :
                          o.outcome = "ok" /\ o.val = ret'.val
      ]_vars

====
